---- MODULE Spec2Model ----
(***************************************************************************)
(* A model of the type-keyed publish/subscribe package pubsub (pubsub.go). *)
(*                                                                         *)
(* An EventScope holds a sync.Map from a type key (the zero value of the   *)
(* type parameter, boxed as `any`) to an inner sync.Map from subscription  *)
(* id to that subscription's untyped channel.  SubscribeToScope registers  *)
(* an entry and starts the castAndForward goroutine; PublishToScope starts *)
(* one sending goroutine per entry it ranges over.  Every goroutine is     *)
(* modelled by its position, every channel operation by the rendezvous of  *)
(* its two sides, and every select by a choice among its ready cases.      *)
(***************************************************************************)
EXTENDS Integers, Sequences, FiniteSets, TLC

\* Bounds of the model: subscriptions created and publish calls made.
MaxSubs == 2
MaxPubs == 2
\* The same for the programs of SpecScopes and of SpecTypes.
ScopesSubs == 2
ScopesPubs == 1
TypesSubs == 1
TypesPubs == 1
\* The same for the program of SpecOrder.
OrderSubs == 1
OrderPubs == 2
\* The same for the program of SpecUnsub.
UnsubSubs == 2
UnsubPubs == 1
\* The same for the program of SpecFired.
FiredSubs == 2
FiredPubs == 2

SubIds == 1..MaxSubs
PubIds == 1..MaxPubs

\* The scopes of the program: Global (made by init) and one more EventScope.
Scopes == {"Global", "testScope"}

\* The contexts callers pass: context.Background(), which is never done, and
\* one context made by context.WithCancel.
Background == "Background"
Ctxs == {Background, "ctx"}

(***************************************************************************)
(* Go types and values.                                                    *)
(***************************************************************************)
ConcreteTypes == {"int", "testImpl"}
InterfaceTypes == {"testInterface", "error"}
UnhashableTypes == {"[]bool"}
TypeParams == ConcreteTypes \cup InterfaceTypes \cup UnhashableTypes

\* The method sets: testImpl has Test(), userError has Error(), and a
\* caller's type bothImpl has both methods.
Implements(C, I) ==
    <<C, I>> \in {<<"testImpl", "testInterface">>, <<"userError", "error">>,
                  <<"bothImpl", "testInterface">>, <<"bothImpl", "error">>}

\* A Go value as a pair of its dynamic type and its data; the nil interface
\* value has neither.
NilValue == [dyn |-> "nil", data |-> "nil"]
Box(C, d) == [dyn |-> C, data |-> d]

\* var zero T
ZeroOf(T) ==
    CASE T = "int" -> Box("int", "0")
      [] T = "testImpl" -> Box("testImpl", "{}")
      [] T = "[]bool" -> Box("[]bool", "nil")
      [] OTHER -> NilValue

\* The values of static type T that callers publish.
ValuesOf(T) ==
    CASE T = "int" -> {Box("int", "42")}
      [] T = "testImpl" -> {Box("testImpl", "{}")}
      [] T = "testInterface" -> {Box("testImpl", "{}"), NilValue}
      [] T = "error" -> {Box("userError", "{}"), Box("bothImpl", "{}"), NilValue}
      [] T = "[]bool" -> {Box("[]bool", "nil")}
      [] OTHER -> {}

\* The conversion of a value of static type T to `any`: a concrete value is
\* boxed with T as its dynamic type, an interface value keeps its dynamic
\* type and value, and the nil interface value becomes the nil `any`.
ToAny(T, v) ==
    IF T \in InterfaceTypes THEN (IF v.dyn = "nil" THEN NilValue ELSE v)
    ELSE Box(T, v.data)

\* val.(T): whether the type assertion succeeds.
AssertOk(a, T) ==
    IF T \in InterfaceTypes THEN a.dyn # "nil" /\ Implements(a.dyn, T)
    ELSE a.dyn = T

\* val.(T): the typed value of a successful assertion.
AssertVal(a, T) == IF T \in InterfaceTypes THEN a ELSE Box(T, a.data)

\* Whether a value can be a map key (hashed by sync.Map).
Hashable(T) == T \notin UnhashableTypes

\* A key that forgets the type parameter: `var zero any`.
KeyOfUntyped(T) == NilValue

\* The key SubscribeToScope and PublishToScope use for T: `zero` passed as
\* an `any` argument.
KeyOf(T) == ToAny(T, ZeroOf(T))

(***************************************************************************)
(* State.                                                                  *)
(***************************************************************************)
VARIABLES
    subscribers,  \* created scope -> (key -> set of ids in the inner map)
    ctxDone,      \* context -> whether its Done channel is closed
    subs,         \* subscription id -> [e, T, ctx] of the SubscribeToScope call
    fwdPc,        \* subscription id -> position of its castAndForward
    fwdVal,       \* subscription id -> typedVal held at the inner select
    cancelled,    \* subscription id -> whether its cancel func was called
    received,     \* subscription id -> what the reader of ch received
    pubs,         \* publish id -> [e, T, val, ctx] of the PublishToScope call
    pubPc,        \* publish id -> position of the call
    pubTodo,      \* publish id -> entries present when Range began, not visited
    tasks,        \* <<publish id, subscription id>> -> state of the goroutine
    lastPanic,    \* the call that last panicked in its caller, who recovered
    exited        \* the process died of a panic in a goroutine

vars == <<subscribers, ctxDone, subs, fwdPc, fwdVal, cancelled,
          received, pubs, pubPc, pubTodo, tasks, lastPanic, exited>>

NoVal == [p |-> 0, val |-> NilValue]

\* &sync.Map{}
EmptyMap == [k \in {} |-> {}]

\* NewEventScope(): the registry of a new scope.
NewEventScope == EmptyMap

\* The state once init() has made Global and the callers have made the scopes
\* SS they use.
InitOver(SS) ==
    /\ subscribers = [e \in SS |-> NewEventScope]
    /\ ctxDone = [c \in Ctxs |-> FALSE]
    /\ subs = <<>>
    /\ fwdPc = <<>>
    /\ fwdVal = <<>>
    /\ cancelled = <<>>
    /\ received = <<>>
    /\ pubs = <<>>
    /\ pubPc = <<>>
    /\ pubTodo = <<>>
    /\ tasks = [x \in PubIds \X SubIds |-> "none"]
    /\ lastPanic = "none"
    /\ exited = FALSE

Created == DOMAIN subs
Started == DOMAIN pubs

\* The derived context of subscription s is done when its cancel func was
\* called by UnsubFn or when the context given to SubscribeToScope is done.
ForwardDone(s) == cancelled[s] \/ ctxDone[subs[s].ctx]

\* The cancel func of the caller's context.WithCancel.
CancelCtx(c) ==
    /\ ~exited
    /\ c # Background
    /\ ~ctxDone[c]
    /\ ctxDone' = [ctxDone EXCEPT ![c] = TRUE]
    /\ UNCHANGED <<subscribers, subs, fwdPc, fwdVal, cancelled,
                   received, pubs, pubPc, pubTodo, tasks, lastPanic, exited>>

\* subs, _ := e.subscribers.LoadOrStore(zero, &sync.Map{})
LoadOrStore(m, k) == IF k \in DOMAIN m THEN m ELSE m @@ (k :> {})

SubscribeToScope(e, T, c) ==
    /\ ~exited
    /\ e \in DOMAIN subscribers
    /\ Hashable(T)
    /\ LET id == Len(subs) + 1
           m == LoadOrStore(subscribers[e], KeyOf(T))
       IN  subscribers' = [subscribers EXCEPT
                              ![e] = [m EXCEPT ![KeyOf(T)] = @ \cup {id}]]
    /\ subs' = Append(subs, [e |-> e, T |-> T, ctx |-> c])
    /\ fwdPc' = Append(fwdPc, "select")
    /\ fwdVal' = Append(fwdVal, NoVal)
    /\ cancelled' = Append(cancelled, FALSE)
    /\ received' = Append(received, <<>>)
    /\ UNCHANGED <<ctxDone, pubs, pubPc, pubTodo, tasks, lastPanic, exited>>

\* A SubscribeToScope whose caller passes a context that is already done.
SubscribeFired(e, T, c) ==
    /\ ctxDone[c]
    /\ SubscribeToScope(e, T, c)

\* A SubscribeToScope that starts castAndForward before it looks the key up:
\* the panic leaves a forwarding goroutine behind.
SubscribePanicsAfterStart(e, T) ==
    /\ ~exited
    /\ e \in DOMAIN subscribers
    /\ ~Hashable(T)
    /\ Len(subs) < MaxSubs
    /\ lastPanic' = "SubscribeToScope"
    /\ subs' = Append(subs, [e |-> e, T |-> T, ctx |-> Background])
    /\ fwdPc' = Append(fwdPc, "select")
    /\ fwdVal' = Append(fwdVal, NoVal)
    /\ cancelled' = Append(cancelled, FALSE)
    /\ received' = Append(received, <<>>)
    /\ UNCHANGED <<subscribers, ctxDone, pubs, pubPc, pubTodo, tasks, exited>>

\* The panic of LoadOrStore on a key that cannot be hashed (line 86), before
\* anything is stored or started; the caller recovers, as the tests do.
SubscribePanics(e, T) ==
    /\ ~exited
    /\ e \in DOMAIN subscribers
    /\ ~Hashable(T)
    /\ lastPanic' = "SubscribeToScope"
    /\ UNCHANGED <<subscribers, ctxDone, subs, fwdPc, fwdVal, cancelled,
                   received, pubs, pubPc, pubTodo, tasks, exited>>

\* A PublishToScope that loads from Global, as Publish does.
LoadedFromGlobal(e) == "Global"

\* The scope whose registry PublishToScope(ctx, e, val) loads from.
LoadedFrom(e) == e

\* var zero T; subs, ok := e.subscribers.Load(zero); if !ok { return };
\* otherwise the call begins to Range over the inner map.
PublishToScope(e, T, v, c) ==
    /\ ~exited
    /\ e \in DOMAIN subscribers
    /\ Hashable(T)
    /\ v \in ValuesOf(T)
    /\ LET m == subscribers[LoadedFrom(e)]
           ok == KeyOf(T) \in DOMAIN m
       IN  /\ pubPc' = Append(pubPc, IF ok THEN "range" ELSE "returned")
           /\ pubTodo' = Append(pubTodo, IF ok THEN m[KeyOf(T)] ELSE {})
    /\ pubs' = Append(pubs, [e |-> e, T |-> T, val |-> v, ctx |-> c])
    /\ UNCHANGED <<subscribers, ctxDone, subs, fwdPc, fwdVal, cancelled,
                   received, tasks, lastPanic, exited>>

\* A PublishToScope by a caller who makes its publish calls one after the
\* other: every earlier call has returned.
PublishAfterReturn(e, T, v, c) ==
    /\ \A p \in Started : pubPc[p] = "returned"
    /\ PublishToScope(e, T, v, c)

\* The panic of Load on a key that cannot be hashed (line 50).
PublishPanics(e, T) ==
    /\ ~exited
    /\ e \in DOMAIN subscribers
    /\ ~Hashable(T)
    /\ lastPanic' = "PublishToScope"
    /\ UNCHANGED <<subscribers, ctxDone, subs, fwdPc, fwdVal, cancelled,
                   received, pubs, pubPc, pubTodo, tasks, exited>>

\* The inner map publish call p ranges over, as it is now.
RangeMap(p) == subscribers[LoadedFrom(pubs[p].e)][KeyOf(pubs[p].T)]

\* One call of the Range callback: `go func() {...}()` for the entry of s.
\* Range visits no key twice; an entry stored or deleted during the call may
\* or may not be visited.
PubVisit(p, s) ==
    /\ ~exited
    /\ p \in Started
    /\ pubPc[p] = "range"
    /\ s \in RangeMap(p)
    /\ tasks[<<p, s>>] = "none"
    /\ tasks' = [tasks EXCEPT ![<<p, s>>] = "pending"]
    /\ pubTodo' = [pubTodo EXCEPT ![p] = @ \ {s}]
    /\ UNCHANGED <<subscribers, ctxDone, subs, fwdPc, fwdVal, cancelled,
                   received, pubs, pubPc, lastPanic, exited>>

\* A PublishToScope that waits for its sending goroutines before it returns.
RangeFinishedAndDelivered(p) ==
    /\ pubTodo[p] \cap RangeMap(p) = {}
    /\ \A s \in SubIds : tasks[<<p, s>>] # "pending"

\* Range is over once every entry that was there throughout has been visited.
RangeFinished(p) == pubTodo[p] \cap RangeMap(p) = {}

\* PublishToScope returns.
PubReturn(p) ==
    /\ ~exited
    /\ p \in Started
    /\ pubPc[p] = "range"
    /\ RangeFinished(p)
    /\ pubPc' = [pubPc EXCEPT ![p] = "returned"]
    /\ pubTodo' = [pubTodo EXCEPT ![p] = {}]
    /\ UNCHANGED <<subscribers, ctxDone, subs, fwdPc, fwdVal, cancelled,
                   received, pubs, tasks, lastPanic, exited>>

\* The value a sending goroutine of publish p offers: val as a `chan any` element.
Sent(p) == ToAny(pubs[p].T, pubs[p].val)

\* case <-ctx.Done(): return   (the sending goroutine, line 61)
TaskAbandon(p, s) ==
    /\ ~exited
    /\ p \in Started
    /\ tasks[<<p, s>>] = "pending"
    /\ ctxDone[pubs[p].ctx]
    /\ tasks' = [tasks EXCEPT ![<<p, s>>] = "abandoned"]
    /\ UNCHANGED <<subscribers, ctxDone, subs, fwdPc, fwdVal, cancelled,
                   received, pubs, pubPc, pubTodo, lastPanic, exited>>

\* A forwarding goroutine that closes its channel when its context is done
\* and goes on with its loop.
FwdRecvAfterClose(s, p) ==
    /\ ~exited
    /\ s \in Created /\ p \in Started
    /\ fwdPc[s] \in {"select", "closed"}
    /\ tasks[<<p, s>>] = "pending"
    /\ AssertOk(Sent(p), subs[s].T)
    /\ tasks' = [tasks EXCEPT ![<<p, s>>] = "sent"]
    /\ fwdPc' = [fwdPc EXCEPT ![s] = "forward"]
    /\ fwdVal' = [fwdVal EXCEPT ![s] = [p |-> p, val |-> AssertVal(Sent(p), subs[s].T)]]
    /\ UNCHANGED <<subscribers, ctxDone, subs, cancelled, received,
                   pubs, pubPc, pubTodo, lastPanic, exited>>

\* A forwarding goroutine that takes the values of the publish calls in the
\* order of the calls: the sending goroutines of earlier calls go first.
FwdRecvInOrder(s, p) ==
    /\ ~exited
    /\ s \in Created /\ p \in Started
    /\ fwdPc[s] = "select"
    /\ tasks[<<p, s>>] = "pending"
    /\ \A q \in Started : q < p => tasks[<<q, s>>] # "pending"
    /\ AssertOk(Sent(p), subs[s].T)
    /\ tasks' = [tasks EXCEPT ![<<p, s>>] = "sent"]
    /\ fwdPc' = [fwdPc EXCEPT ![s] = "forward"]
    /\ fwdVal' = [fwdVal EXCEPT ![s] = [p |-> p, val |-> AssertVal(Sent(p), subs[s].T)]]
    /\ UNCHANGED <<subscribers, ctxDone, subs, cancelled, received,
                   pubs, pubPc, pubTodo, lastPanic, exited>>

\* case dest <- val (line 60) meets case val, ok := <-in (line 109), and the
\* assertion val.(T) succeeds.
FwdRecv(s, p) ==
    /\ ~exited
    /\ s \in Created /\ p \in Started
    /\ fwdPc[s] = "select"
    /\ tasks[<<p, s>>] = "pending"
    /\ AssertOk(Sent(p), subs[s].T)
    /\ tasks' = [tasks EXCEPT ![<<p, s>>] = "sent"]
    /\ fwdPc' = [fwdPc EXCEPT ![s] = "forward"]
    /\ fwdVal' = [fwdVal EXCEPT ![s] = [p |-> p, val |-> AssertVal(Sent(p), subs[s].T)]]
    /\ UNCHANGED <<subscribers, ctxDone, subs, cancelled, received,
                   pubs, pubPc, pubTodo, lastPanic, exited>>

\* The same rendezvous when the assertion fails: panic("mismatched type").
\* The deferred close(out) runs, and the panic, which nothing recovers, ends
\* the process.
FwdMismatch(s, p) ==
    /\ ~exited
    /\ s \in Created /\ p \in Started
    /\ fwdPc[s] = "select"
    /\ tasks[<<p, s>>] = "pending"
    /\ ~AssertOk(Sent(p), subs[s].T)
    /\ tasks' = [tasks EXCEPT ![<<p, s>>] = "sent"]
    /\ fwdPc' = [fwdPc EXCEPT ![s] = "panicked"]
    /\ exited' = TRUE
    /\ UNCHANGED <<subscribers, ctxDone, subs, fwdVal, cancelled,
                   received, pubs, pubPc, pubTodo, lastPanic>>

\* case <-ctx.Done(): return, at either select of castAndForward (lines 107,
\* 119); the deferred close(out) runs.
FwdCtxDone(s) ==
    /\ ~exited
    /\ s \in Created
    /\ fwdPc[s] \in {"select", "forward"}
    /\ ForwardDone(s)
    /\ fwdPc' = [fwdPc EXCEPT ![s] = "closed"]
    /\ fwdVal' = [fwdVal EXCEPT ![s] = NoVal]
    /\ UNCHANGED <<subscribers, ctxDone, subs, cancelled, received,
                   pubs, pubPc, pubTodo, tasks, lastPanic, exited>>

\* case out <- typedVal (line 118) meets a receive by the reader of ch.
FwdSend(s) ==
    /\ ~exited
    /\ s \in Created
    /\ fwdPc[s] = "forward"
    /\ received' = [received EXCEPT ![s] = Append(@, fwdVal[s])]
    /\ fwdPc' = [fwdPc EXCEPT ![s] = "select"]
    /\ fwdVal' = [fwdVal EXCEPT ![s] = NoVal]
    /\ UNCHANGED <<subscribers, ctxDone, subs, cancelled, pubs, pubPc,
                   pubTodo, tasks, lastPanic, exited>>

\* An unsub that deletes the subscriber set of the type instead of its own
\* entry.
UnsubDeletesKey(s) ==
    /\ ~exited
    /\ s \in Created
    /\ subscribers' = [subscribers EXCEPT
                          ![subs[s].e][KeyOf(subs[s].T)] = {}]
    /\ cancelled' = [cancelled EXCEPT ![s] = TRUE]
    /\ UNCHANGED <<ctxDone, subs, fwdPc, fwdVal, received, pubs, pubPc, pubTodo,
                   tasks, lastPanic, exited>>

\* unsub(): subMap.Delete(id); cancel()
Unsub(s) ==
    /\ ~exited
    /\ s \in Created
    /\ subscribers' = [subscribers EXCEPT
                          ![subs[s].e][KeyOf(subs[s].T)] = @ \ {s}]
    /\ cancelled' = [cancelled EXCEPT ![s] = TRUE]
    /\ UNCHANGED <<ctxDone, subs, fwdPc, fwdVal, received, pubs, pubPc, pubTodo,
                   tasks, lastPanic, exited>>

\* The calls of a program whose callers draw their scopes from SS, their type
\* parameters from TT and the contexts of their subscribe and publish calls
\* from SC and PC, making at most NS subscriptions and NP publish calls, and
\* the steps of the goroutines those calls start.
NextCalls(SS, TT, SC, PC, NS, NP) ==
    \/ /\ Len(subs) < NS
       /\ \E e \in SS, T \in TT, c \in SC : SubscribeToScope(e, T, c)
    \/ /\ Len(pubs) < NP
       /\ \E e \in SS, T \in TT, c \in PC :
             \E v \in ValuesOf(T) : PublishToScope(e, T, v, c)
    \/ \E s \in SubIds : Unsub(s)
    \/ \E p \in PubIds, s \in SubIds : PubVisit(p, s)
    \/ \E p \in PubIds : PubReturn(p)
    \/ \E s \in SubIds, p \in PubIds : FwdRecv(s, p)
    \/ \E s \in SubIds : FwdSend(s)
    \/ \E s \in SubIds : FwdCtxDone(s)

\* The caller's context is cancelled, and what a sending goroutine does then.
NextCancel ==
    \/ \E c \in Ctxs : CancelCtx(c)
    \/ \E p \in PubIds, s \in SubIds : TaskAbandon(p, s)

\* The failed assertion of a forwarding goroutine.
NextFault == \E s \in SubIds, p \in PubIds : FwdMismatch(s, p)

\* The calls whose key cannot be hashed.
NextPanics(SS, TT) ==
    \/ \E e \in SS, T \in TT : SubscribePanics(e, T)
    \/ \E e \in SS, T \in TT : PublishPanics(e, T)

\* One scope; subscriptions and publishes of int and of testInterface;
\* subscriptions with context.Background() or with the cancellable context,
\* publishes with the cancellable context.
Init == InitOver({"Global"})
Next ==
    \/ NextCalls({"Global"}, {"int", "testInterface"}, Ctxs, {"ctx"},
                 MaxSubs, MaxPubs)
    \/ NextCancel
    \/ NextFault
Spec == Init /\ [][Next]_vars

\* One scope, every type parameter, every call with context.Background().
NextTypes ==
    \/ NextCalls({"Global"}, TypeParams, {Background}, {Background},
                 TypesSubs, TypesPubs)
    \/ NextFault
    \/ NextPanics({"Global"}, TypeParams)
SpecTypes == Init /\ [][NextTypes]_vars

\* Two scopes, subscriptions and publishes of testInterface with
\* context.Background().
InitScopes == InitOver(Scopes)
NextScopes ==
    \/ NextCalls(Scopes, {"testInterface"}, {Background}, {Background},
                 ScopesSubs, ScopesPubs)
    \/ NextFault
SpecScopes == InitScopes /\ [][NextScopes]_vars

\* One scope, subscriptions and publishes of int with context.Background(),
\* the publish calls made one after the other by one caller.
NextOrder ==
    \/ /\ Len(subs) < OrderSubs
       /\ SubscribeToScope("Global", "int", Background)
    \/ /\ Len(pubs) < OrderPubs
       /\ \E v \in ValuesOf("int") :
             PublishAfterReturn("Global", "int", v, Background)
    \/ \E s \in SubIds : Unsub(s)
    \/ \E p \in PubIds, s \in SubIds : PubVisit(p, s)
    \/ \E p \in PubIds : PubReturn(p)
    \/ \E s \in SubIds, p \in PubIds : FwdRecv(s, p)
    \/ \E s \in SubIds : FwdSend(s)
    \/ \E s \in SubIds : FwdCtxDone(s)
SpecOrder == Init /\ [][NextOrder]_vars

\* One scope, subscriptions to int made with one cancellable context,
\* publishes of int with context.Background(), unsubscribes, and the
\* cancellation of the context.
NextUnsub ==
    \/ NextCalls({"Global"}, {"int"}, {"ctx"}, {Background},
                 UnsubSubs, UnsubPubs)
    \/ \E c \in Ctxs : CancelCtx(c)
SpecUnsub == Init /\ [][NextUnsub]_vars

\* One scope; the caller cancels its context and only then subscribes to
\* int with it; publishes of int with context.Background().
NextFired ==
    \/ \E c \in Ctxs : CancelCtx(c)
    \/ /\ Len(subs) < FiredSubs
       /\ SubscribeFired("Global", "int", "ctx")
    \/ /\ Len(pubs) < FiredPubs
       /\ \E v \in ValuesOf("int") :
             PublishToScope("Global", "int", v, Background)
    \/ \E s \in SubIds : Unsub(s)
    \/ \E p \in PubIds, s \in SubIds : PubVisit(p, s)
    \/ \E p \in PubIds : PubReturn(p)
    \/ \E s \in SubIds, p \in PubIds : FwdRecv(s, p)
    \/ \E s \in SubIds : FwdSend(s)
    \/ \E s \in SubIds : FwdCtxDone(s)
SpecFired == Init /\ [][NextFired]_vars

(***************************************************************************)
(* What the claims speak of.                                               *)
(***************************************************************************)
\* s has its entry in the inner map of its key.
Registered(s) == s \in subscribers[subs[s].e][KeyOf(subs[s].T)]

\* s is neither unsubscribed nor cancelled.
Active(s) == Registered(s) /\ ~ForwardDone(s)

\* The reader of s received the value of publish call p.
HasReceived(s, p) == \E i \in DOMAIN received[s] : received[s][i].p = p

\* A delivery of p toward s was started, or is due before p returns.
Targets(p, s) == s \in pubTodo[p] \/ tasks[<<p, s>>] # "none"

\* The external channel of s is closed.
ChClosed(s) == fwdPc[s] \in {"closed", "panicked"}

\* C1: when a value v of type T is published, with a context that is not
\* cancelled, on the scope of a subscription to T that is neither
\* unsubscribed nor cancelled, the reader receives it, and what a reader
\* receives is the published value itself.  Stated of the runs that end: in
\* a process that has stopped, no such delivery is missing.
C1_DeliversExactly ==
    /\ \A s \in Created : \A i \in DOMAIN received[s] :
          received[s][i].val = pubs[received[s][i].p].val
    /\ exited =>
          \A s \in Created, p \in Started :
              ( /\ subs[s].T = pubs[p].T
                /\ subs[s].e = pubs[p].e
                /\ tasks[<<p, s>>] # "none"
                /\ Active(s)
                /\ ~ctxDone[pubs[p].ctx] )
              => HasReceived(s, p)

\* C2: with several subscriptions under one key, every one of them that a
\* publish call targets and that stays active receives that call's value;
\* none is dropped.  Stated of the runs that end.
C2_NoValueDropped ==
    exited =>
        \A p \in Started, s \in Created :
            ( /\ Cardinality({t \in Created : Targets(p, t)}) >= 2
              /\ Targets(p, s)
              /\ Active(s)
              /\ ~ctxDone[pubs[p].ctx] )
            => HasReceived(s, p)

\* C3: once the UnsubFn of a subscription has returned, its reader receives
\* no further value.
C3_NoDeliveryAfterUnsub ==
    [][\A s \in Created : cancelled[s] => received'[s] = received[s]]_vars

\* C4: once the context given to SubscribeToScope is done, the forwarding
\* goroutine ends and the external channel is closed.  Stated of the runs
\* that end.
C4_ClosedAfterCancel ==
    exited => \A s \in Created : ctxDone[subs[s].ctx] => ChClosed(s)

\* C5: a subscription whose external channel was closed, by UnsubFn or by
\* its context, has no entry in the registry.
C5_ClosedIsUnregistered ==
    \A s \in Created : fwdPc[s] = "closed" => ~Registered(s)

\* C6: a publish on one scope starts no delivery toward, and delivers no
\* value to, a subscription made on another scope.
C6_ScopesIsolated ==
    \A p \in Started, s \in Created :
        subs[s].e # pubs[p].e =>
            /\ ~Targets(p, s)
            /\ fwdVal[s].p # p
            /\ ~HasReceived(s, p)

\* A publish on one scope was delivered there and has returned, while a
\* subscription to the same type on the other scope is active.
C6_Witness ==
    \E p \in Started, s \in Created, t \in Created :
        /\ pubPc[p] = "returned"
        /\ subs[s].e = pubs[p].e /\ HasReceived(s, p)
        /\ subs[t].e # pubs[p].e /\ subs[t].T = pubs[p].T /\ Active(t)
        /\ fwdPc[t] = "select"

\* C7: in a running process a publish call that has begun can always take
\* its next step, to start the next sending goroutine or to return,
\* whatever the sending goroutines, the forwarding goroutines and the
\* readers do.
C7_PublishNeverWaits ==
    \A p \in Started :
        (pubPc[p] = "range" /\ ~exited) =>
            \/ ENABLED PubReturn(p)
            \/ \E s \in SubIds : ENABLED PubVisit(p, s)

\* A publish call has returned while each of its two sending goroutines is
\* still blocked and no reader has received anything.
C7_Witness ==
    \E p \in Started :
        /\ pubPc[p] = "returned"
        /\ Cardinality({s \in Created : tasks[<<p, s>>] = "pending"}) = 2
        /\ \A s \in Created : received[s] = <<>> /\ fwdPc[s] = "select"

\* C8: a publish of a type nobody has subscribed to on that scope does not
\* panic and starts no sending goroutine, neither at once nor later.
C8_NoSubscriberNoOp ==
    /\ lastPanic # "PublishToScope"
    /\ \A p \in Started :
          (~\E s \in Created : subs[s].e = pubs[p].e /\ subs[s].T = pubs[p].T)
          => /\ pubTodo[p] = {}
             /\ \A s \in SubIds : tasks[<<p, s>>] = "none"

\* C9: a SubscribeToScope of a type that cannot be hashed panics and leaves
\* everything else as it was: no subscription and no key of such a type ever
\* exists.
C9_SubscribePanicChangesNothing ==
    [][ /\ (lastPanic' = "SubscribeToScope" /\ lastPanic # "SubscribeToScope")
           => UNCHANGED <<subscribers, ctxDone, subs, fwdPc, fwdVal, cancelled,
                          received, pubs, pubPc, pubTodo, tasks, exited>>
        /\ \A s \in DOMAIN subs' : Hashable(subs'[s].T)
        /\ \A e \in DOMAIN subscribers' : \A k \in DOMAIN subscribers'[e] :
              \E T \in TypeParams : Hashable(T) /\ k = KeyOf(T)
      ]_vars

\* After a subscribe call panicked, a delivery to a registered subscription
\* is ready to go on.
C9_Witness ==
    /\ lastPanic = "SubscribeToScope"
    /\ \E s \in Created, p \in Started :
          Registered(s) /\ fwdPc[s] = "select" /\ tasks[<<p, s>>] = "pending"

\* C10: for a subscription to an interface type I and a value whose type C
\* implements I: published under I, the value handed to the forwarding
\* goroutine passes its assertion and is the value the reader receives;
\* published under C, it is never sent toward the subscription.
C10_InterfaceRouting ==
    \A s \in Created, p \in Started :
        ( /\ subs[s].T \in InterfaceTypes
          /\ subs[s].e = pubs[p].e
          /\ Implements(pubs[p].val.dyn, subs[s].T) )
        => /\ pubs[p].T = pubs[p].val.dyn =>
                 ~Targets(p, s) /\ fwdVal[s].p # p /\ ~HasReceived(s, p)
           /\ (pubs[p].T = subs[s].T /\ tasks[<<p, s>>] = "sent") =>
                 \/ fwdVal[s] = [p |-> p, val |-> pubs[p].val]
                 \/ \E i \in DOMAIN received[s] :
                        received[s][i] = [p |-> p, val |-> pubs[p].val]
                 \/ fwdPc[s] = "closed"

\* The subscriber of testInterface received the testImpl value that was
\* published as a testInterface.
C10_Witness ==
    \E s \in Created, p \in Started :
        /\ subs[s].T = "testInterface" /\ pubs[p].T = "testInterface"
        /\ pubs[p].val = Box("testImpl", "{}")
        /\ received[s] = <<[p |-> p, val |-> pubs[p].val]>>

\* C11: calling the UnsubFn of a subscription that is already closed, by an
\* earlier call or by its context, changes nothing: in particular it removes
\* no entry from the registry.
C11_UnsubChangesNothing ==
    [][\A s \in Created :
          (fwdPc[s] = "closed" /\ Registered(s)) => Registered(s)']_vars

\* C12: a reader receives the value of one publish call at most once, and
\* every value it receives is the value of a publish call of the subscribed
\* type on the scope of the subscription.
C12_AtMostOnce ==
    \A s \in Created :
        /\ \A i, j \in DOMAIN received[s] :
              received[s][i].p = received[s][j].p => i = j
        /\ \A i \in DOMAIN received[s] :
              LET p == received[s][i].p
              IN  /\ p \in Started
                  /\ received[s][i].val = pubs[p].val
                  /\ pubs[p].e = subs[s].e
                  /\ pubs[p].T = subs[s].T

\* C13: no forwarding goroutine panics, and every value a forwarding
\* goroutine took from its internal channel passes the assertion to the
\* subscribed type.
C13_NoMismatch ==
    \A s \in Created :
        /\ fwdPc[s] # "panicked"
        /\ \A p \in Started :
              tasks[<<p, s>>] = "sent" => AssertOk(Sent(p), subs[s].T)

\* C14: a subscription and a publish call of different types have different
\* keys, and the call starts no delivery toward the subscription.
C14_KeysDistinct ==
    \A s \in Created, p \in Started :
        pubs[p].T # subs[s].T =>
            /\ KeyOf(pubs[p].T) # KeyOf(subs[s].T)
            /\ ~Targets(p, s)

\* C15: the order in which a reader receives the values of two publish
\* calls made one after the other is not fixed by the order of the calls:
\* whenever the sending goroutines of an earlier and of a later call both
\* wait at the internal channel of a subscription whose forwarding goroutine
\* is at its select, the goroutine can take the value of the later call.
C15_LaterMayOvertake ==
    /\ \A p, q \in Started : p < q => pubPc[p] = "returned"
    /\ \A s \in Created, p, q \in Started :
          ( /\ p < q
            /\ ~exited
            /\ fwdPc[s] = "select"
            /\ tasks[<<p, s>>] = "pending"
            /\ tasks[<<q, s>>] = "pending" )
          => ENABLED FwdRecv(s, q)

\* The reader of an active subscription received the value of the second
\* publish call and then the value of the first.
C15_Witness ==
    \E s \in Created :
        /\ Active(s)
        /\ Len(received[s]) = 2
        /\ received[s][1].p = 2
        /\ received[s][2].p = 1

\* C16: the step in which the UnsubFn of a subscription first runs leaves
\* the caller's contexts as they were and leaves every other subscription
\* with its registry entry, its own cancellation, its forwarding goroutine,
\* its channel and what its reader received.
C16_UnsubFrame ==
    [][\A s \in Created :
          (~cancelled[s] /\ cancelled'[s]) =>
              /\ ctxDone' = ctxDone
              /\ \A t \in Created \ {s} :
                    /\ Registered(t)' = Registered(t)
                    /\ cancelled'[t] = cancelled[t]
                    /\ fwdPc'[t] = fwdPc[t]
                    /\ fwdVal'[t] = fwdVal[t]
                    /\ received'[t] = received[t]]_vars

\* One of two subscriptions to the same type made with the same context was
\* unsubscribed and is closed; the context is not done, and the other
\* subscription, still active, received a publish that the first did not.
C16_Witness ==
    \E s, t \in Created, p \in Started :
        /\ s # t
        /\ subs[s] = subs[t]
        /\ subs[s].ctx # Background /\ ~ctxDone[subs[s].ctx]
        /\ cancelled[s] /\ fwdPc[s] = "closed"
        /\ tasks[<<p, s>>] = "none"
        /\ Active(t) /\ fwdPc[t] = "select"
        /\ HasReceived(t, p)

\* C17: a closed external channel stays as it is: its forwarding goroutine
\* takes no further step and its reader receives nothing more.  A channel
\* is closed only in a step of its forwarding goroutine, whose context is
\* done or which panics, and a sending goroutine completes its send only
\* with a forwarding goroutine that is at its outer select.
C17_NoChannelMisuse ==
    [][\A s \in Created :
          /\ ChClosed(s) =>
                /\ fwdPc'[s] = fwdPc[s]
                /\ fwdVal'[s] = fwdVal[s]
                /\ received'[s] = received[s]
          /\ (~ChClosed(s) /\ ChClosed(s)') =>
                \/ ForwardDone(s) /\ fwdPc'[s] = "closed"
                \/ exited' /\ fwdPc'[s] = "panicked"
          /\ \A p \in Started :
                (tasks[<<p, s>>] # "sent" /\ tasks'[<<p, s>>] = "sent") =>
                    fwdPc[s] = "select"]_vars

\* Two subscriptions are closed: the reader of one received the value of a
\* publish call, and the sending goroutine of that call toward the other
\* still waits at its internal channel.
C17_Witness ==
    \E s, t \in Created, p \in Started :
        /\ fwdPc[s] = "closed" /\ fwdPc[t] = "closed"
        /\ HasReceived(t, p)
        /\ tasks[<<p, s>>] = "pending"

\* C18: the reader of a subscription that was made with a context already
\* done never receives a value.  Under SpecFired every subscription is made
\* so.
C18_FiredNeverDelivers ==
    \A s \in Created :
        /\ ctxDone[subs[s].ctx]
        /\ received[s] = <<>>

\* C19: once the context of a publish call is done, a sending goroutine of
\* that call whose value was not yet taken ends without delivering: no step
\* hands its value to a forwarding goroutine.
C19_CancelledNotDelivered ==
    [][\A p \in Started, s \in Created :
          (tasks[<<p, s>>] = "pending" /\ ctxDone[pubs[p].ctx]) =>
              tasks'[<<p, s>>] \in {"pending", "abandoned"}]_vars

\* C20: no sending goroutine stays blocked forever: in a running process
\* there is no sending goroutine of a publish call made with
\* context.Background() that waits at the internal channel of a
\* subscription whose forwarding goroutine has returned.
C20_NoTaskBlockedForever ==
    \A p \in Started, s \in Created :
        ~ ( /\ ~exited
            /\ tasks[<<p, s>>] = "pending"
            /\ pubs[p].ctx = Background
            /\ fwdPc[s] = "closed" )
====
